---- MODULE Spec2Model ----
(***************************************************************************)
(* Model of split_auto.py: the source splitter that scans codegen.cpp for  *)
(* CodeGenerator:: function definitions, groups them by FUNCTION_MAP and   *)
(* writes one codegen_<key>.cpp per non-empty group plus codegen_new.cpp.  *)
(*                                                                         *)
(* Text is modelled as a flat sequence of tokens; "\n" is the newline      *)
(* token.  A line is the token sequence up to and including its "\n", as   *)
(* readlines() returns it.  Line numbers are the code's 0-based indices;   *)
(* line i of the code is lines[i + 1] here.                                *)
(***************************************************************************)
EXTENDS Integers, Sequences, FiniteSets, TLC

VARIABLES fs, FUNCTION_MAP, keep_functions, lines, functions, file_functions,
          pc, key_idx, run, first_run_fs

vars == <<fs, FUNCTION_MAP, keep_functions, lines, functions, file_functions,
          pc, key_idx, run, first_run_fs>>

\* Largest number of source fragments the input file is assembled from.
MaxChunks == 3

NL == "\n"

(***************************************************************************)
(* Paths                                                                   *)
(***************************************************************************)
InputPath == "src/codegen/codegen.cpp"

ReducedPath == "src/codegen/codegen_new.cpp"

\* Key order of the file_functions dict literal.
FileKeys == <<"match", "type", "struct", "stmt", "expr">>

KeySet == {FileKeys[x] : x \in 1..Len(FileKeys)}

PartPath(k) ==
  CASE k = "match"  -> "src/codegen/codegen_match.cpp"
    [] k = "type"   -> "src/codegen/codegen_type.cpp"
    [] k = "struct" -> "src/codegen/codegen_struct.cpp"
    [] k = "stmt"   -> "src/codegen/codegen_stmt.cpp"
    [] k = "expr"   -> "src/codegen/codegen_expr.cpp"

Paths == {InputPath, ReducedPath} \cup {PartPath(k) : k \in KeySet}

NoFile == [exists |-> FALSE, data |-> <<>>]

File(data) == [exists |-> TRUE, data |-> data]

(***************************************************************************)
(* Text helpers                                                            *)
(***************************************************************************)
RECURSIVE Flatten(_)
Flatten(ss) == IF ss = <<>> THEN <<>> ELSE Head(ss) \o Flatten(Tail(ss))

\* str.count(ch) on one line.
Count(line, ch) == Cardinality({x \in 1..Len(line) : line[x] = ch})

Min(a, b) == IF a < b THEN a ELSE b

\* ''.join(lines[start:end]) with Python's slice clamping.
JoinLines(ls, start, end) ==
  Flatten([x \in 1..(Min(end, Len(ls)) - start) |-> ls[start + x]])

\* f.readlines(): cut after every newline; a last piece without one is a line.
RECURSIVE ReadLinesFrom(_, _, _)
ReadLinesFrom(text, x, cur) ==
  IF x > Len(text)
    THEN IF cur = <<>> THEN <<>> ELSE <<cur>>
    ELSE IF text[x] = NL
           THEN <<Append(cur, NL)>> \o ReadLinesFrom(text, x + 1, <<>>)
           ELSE ReadLinesFrom(text, x + 1, Append(cur, text[x]))

ReadLines(text) == ReadLinesFrom(text, 1, <<>>)

(***************************************************************************)
(* The two regular expressions                                             *)
(***************************************************************************)
\* (llvm::\w+\*|void|bool|std::string) followed by " CodeGenerator::"
RetQuals == {"void CodeGenerator::", "bool CodeGenerator::",
             "std::string CodeGenerator::", "llvm::Value* CodeGenerator::"}

\* Tokens that match \w+
Words == {"f", "g", "flag", "generate", "saveIR", "generateExpr"}

\* re.match(r'^(llvm::\w+\*|void|bool|std::string) CodeGenerator::(\w+)\(', line)
HeaderMatch(line) ==
  /\ Len(line) >= 3
  /\ line[1] \in RetQuals
  /\ line[2] \in Words
  /\ line[3] = "("

\* match.group(2)
HeaderName(line) == line[2]

\* re.match(r'^(llvm::\w+\*|void|bool|std::string) CodeGenerator::', lines[i])
PrefixMatch(line) ==
  /\ Len(line) >= 1
  /\ line[1] \in RetQuals

(***************************************************************************)
(* Inputs: source files assembled from fragments, and configurations       *)
(***************************************************************************)
Names == {"f", "g"}

OneLine(n) == << <<"void CodeGenerator::", n, "(", ")", "{", "}">> >>

HdrOpen(n) == << <<"void CodeGenerator::", n, "(", ")", "{">> >>

Hdr(n) == << <<"void CodeGenerator::", n, "(", ")">> >>

MultiSig(n) ==
  << <<"void CodeGenerator::", n, "(">>, <<"int a", ")">>, <<"{", "}">> >>

OpenLine == << <<"{">> >>

CloseLine == << <<"}">> >>

BlockLine == << <<"{", "x;", "}">> >>

\* A line with a lone '}' followed by a line with a lone '{'.
CloseOpen == << <<"}">>, <<"{">> >>

StaticLine == << <<"bool CodeGenerator::", "flag", "= false;">> >>

TextLine == << <<"#include">> >>

\* The fragments a file is assembled from, with functions of the given names.
ChunksOf(names) ==
  UNION {{OneLine(n), HdrOpen(n), Hdr(n), MultiSig(n)} : n \in names}
    \cup {OpenLine, CloseLine, BlockLine, CloseOpen, StaticLine, TextLine}

ChunkSet == ChunksOf(Names)

\* The text of a file made of the given fragments, every line newline-ended.
SourceText(chunks) ==
  LET ls == Flatten(chunks)
  IN  Flatten([x \in 1..Len(ls) |-> Append(ls[x], NL)])

SourcesOf(chunks) ==
  {SourceText(c) : c \in UNION {[1..n -> chunks] : n \in 0..MaxChunks}}

Sources == SourcesOf(ChunkSet)

\* The same files, and each of them without the newline of its last line.
RawSources ==
  Sources \cup {SubSeq(t, 1, Len(t) - 1) : t \in Sources \ {<<>>}}

\* Classification tables and allow-lists the run is checked with.
Configs ==
  { [table |-> [n \in {"f", "g"} |-> IF n = "f" THEN "match" ELSE "type"],
     keep  |-> <<"g">>],
    [table |-> [n \in {"f", "g"} |-> "match"],
     keep  |-> <<"g", "f">>],
    [table |-> [n \in {"f"} |-> "match"],
     keep  |-> <<"g">>],
    [table |-> [n \in {"f"} |-> "match"],
     keep  |-> <<>>] }

(***************************************************************************)
(* The configuration the script ships with                                 *)
(***************************************************************************)
\* # Match functions
MatchFunctions ==
  {"generateMatchExpr", "generateIsExpr", "matchPattern"}

\* # Type functions
TypeFunctions ==
  {"convertType", "convertPrimitiveType", "getOrCreateStructType",
   "getEnumType", "createOptionalType", "ensureOptionalEnumDef",
   "resolveGenericType", "mangleGenericName",
   "resolveGenericStructName", "isGenericFunction",
   "instantiateGenericFunction", "instantiateGenericStruct",
   "instantiateGenericEnum", "instantiateGenericStructMethods",
   "convertTypeToCurrentContext"}

\* # Struct functions
StructFunctions ==
  {"generateFunctionStmt", "generateExternStmt", "generateStructStmt",
   "generateEnumStmt", "generateImplStmt", "generateStructLiteralExpr",
   "generateEnumVariantExpr", "generateMemberAccessExpr",
   "generateArrayLiteralExpr", "importTypeFromModule"}

\* # Statement functions
StmtFunctions ==
  {"generateStmt", "generateLetStmt", "generateReturnStmt",
   "generateIfStmt", "generateLoopStmt", "generateBreakStmt",
   "generateContinueStmt", "generateBlockStmt", "generateExprStmt"}

\* # Expression functions
ExprFunctions ==
  {"generateExpr", "generateBinaryExpr", "generateUnaryExpr",
   "generateCallExpr", "generateArgumentValue", "generateBuiltinCall",
   "generateAssignExpr", "generateIndexExpr", "generateIdentifierExpr",
   "generateIfExpr", "generateCastExpr", "generateTryExpr",
   "generateOkExpr", "generateErrExpr"}

\* FUNCTION_MAP = { ... }
ShippedFunctionMap ==
  [n \in MatchFunctions \cup TypeFunctions \cup StructFunctions
          \cup StmtFunctions \cup ExprFunctions |->
     CASE n \in MatchFunctions  -> "match"
       [] n \in TypeFunctions   -> "type"
       [] n \in StructFunctions -> "struct"
       [] n \in StmtFunctions   -> "stmt"
       [] n \in ExprFunctions   -> "expr"]

KeepWithTableKey == <<"printIR", "saveIR", "generateExpr", "generate">>

\* keep_functions = ['printIR', 'saveIR', 'compileToObject', 'generate']
ShippedKeep == <<"printIR", "saveIR", "compileToObject", "generate">>

ShippedConfig == [table |-> ShippedFunctionMap, keep |-> ShippedKeep]

\* Names of functions in the files the shipped configuration is run on: two
\* of the allow-list and one of the table.
ShippedNames == {"generate", "saveIR", "generateExpr"}

ShippedSources == SourcesOf(ChunksOf(ShippedNames))

Stale == File(<<"// stale", NL>>)

(***************************************************************************)
(* find_functions                                                          *)
(***************************************************************************)
\* functions[func_name] = value on an insertion-ordered dict.
DictSet(d, name, rec) ==
  IF \E x \in 1..Len(d) : d[x].name = name
    THEN [x \in 1..Len(d) |-> IF d[x].name = name THEN rec ELSE d[x]]
    ELSE Append(d, rec)

DictHas(d, name) == \E x \in 1..Len(d) : d[x].name = name

DictGet(d, name) == d[CHOOSE x \in 1..Len(d) : d[x].name = name]

DepthZero(in_function, brace_count) == brace_count = 0

\* if in_function and brace_count == 0
Balanced(in_function, brace_count) == in_function /\ brace_count = 0

\* The while loop's else clause: end = len(lines).
EndOfInput(ls) == Len(ls)

\* The inner while loop with its else clause.
RECURSIVE FindEnd(_, _, _, _)
FindEnd(ls, j, brace_count, in_function) ==
  IF j >= Len(ls)
    THEN EndOfInput(ls)
    ELSE LET line == ls[j + 1]
             opens == Count(line, "{")
             closes == Count(line, "}")
             inf == in_function \/ opens > 0
             bc == brace_count + opens - closes
         IN  IF Balanced(inf, bc)
               THEN j + 1
               ELSE FindEnd(ls, j + 1, bc, inf)

HeaderScanStart(i) == i

\* Where the inner scan starts for a header found at line i.
BodyScanStart(i) == i + 1

\* Where the header search resumes after recording (start, end).
ResumeNextLine(start, end) == start + 1

ResumeAt(start, end) == end

RECURSIVE ScanFrom(_, _, _, _)
ScanFrom(ls, table, i, fns) ==
  IF i >= Len(ls)
    THEN fns
    ELSE LET line == ls[i + 1]
         IN  IF HeaderMatch(line) /\ HeaderName(line) \in DOMAIN table
               THEN LET end == FindEnd(ls, BodyScanStart(i), 0, FALSE)
                        rec == [name |-> HeaderName(line), start |-> i,
                                end |-> end, target |-> table[HeaderName(line)]]
                    IN  ScanFrom(ls, table, ResumeAt(i, end),
                                 DictSet(fns, rec.name, rec))
               ELSE ScanFrom(ls, table, i + 1, fns)

find_functions(ls, table) == ScanFrom(ls, table, 0, <<>>)

(***************************************************************************)
(* Grouping and sorting                                                    *)
(***************************************************************************)
\* The append loop: the records of one target file, in dict order.
Grouped(fns, k) ==
  LET F[x \in 0..Len(fns)] ==
        IF x = 0 THEN <<>>
        ELSE IF fns[x].target = k
               THEN Append(F[x - 1], [name |-> fns[x].name,
                                      start |-> fns[x].start,
                                      end |-> fns[x].end])
               ELSE F[x - 1]
  IN  F[Len(fns)]

RECURSIVE InsertByStart(_, _)
InsertByStart(s, r) ==
  IF s = <<>> THEN <<r>>
  ELSE IF r.start < Head(s).start
         THEN <<r>> \o s
         ELSE <<Head(s)>> \o InsertByStart(Tail(s), r)

Unsorted(s) == s

\* list.sort(key=lambda x: x[1]): stable, ascending start.
RECURSIVE SortByStart(_)
SortByStart(s) ==
  IF s = <<>> THEN <<>>
  ELSE InsertByStart(SortByStart(SubSeq(s, 1, Len(s) - 1)), s[Len(s)])

(***************************************************************************)
(* Emission                                                                *)
(***************************************************************************)
NeverSkip(funcs) == FALSE

\* if not funcs: continue
SkipPartition(funcs) == funcs = <<>>

ContinueAfterError(next, abort) == next

\* An exception raised by open() or write() is not caught: the script ends.
AfterError(next, abort) == abort

KeepExisting(old) == IF old.exists THEN old.data ELSE <<>>

\* open(filename, 'w'): the file is created or truncated.
OpenTruncate(old) == <<>>

Headers(k) ==
  CASE k = "match"  -> <<"// header:match", NL>>
    [] k = "type"   -> <<"// header:type", NL>>
    [] k = "struct" -> <<"// header:struct", NL>>
    [] k = "stmt"   -> <<"// header:stmt", NL>>
    [] k = "expr"   -> <<"// header:expr", NL>>

NamespaceClose == <<"}", " // namespace pawc", NL>>

\* The for loop writing each function's lines and a newline.
RECURSIVE FuncsText(_, _)
FuncsText(ls, funcs) ==
  IF funcs = <<>> THEN <<>>
  ELSE JoinLines(ls, Head(funcs).start, Head(funcs).end) \o <<NL>>
         \o FuncsText(ls, Tail(funcs))

\* What is written before the first function of a partition file.
Prologue(k) ==
  Headers(k)
    \o <<"#include \"codegen.h\"", NL>>
    \o <<"#include <iostream>", NL, NL>>
    \o <<"namespace pawc ", "{", NL, NL>>

PartitionText(ls, k, funcs) ==
  Prologue(k) \o FuncsText(ls, funcs) \o NamespaceClose

ReducerTestFull(line) == HeaderMatch(line)

\* The reduced file's own header test.
ReducerTest(line) == PrefixMatch(line)

\* The preamble loop: index of the first line it does not write.
RECURSIVE PreambleEnd(_, _)
PreambleEnd(ls, i) ==
  IF i >= Len(ls) THEN i
  ELSE IF ReducerTest(ls[i + 1]) THEN i
       ELSE PreambleEnd(ls, i + 1)

KeepInScanOrder(keep, fns) ==
  LET F[x \in 0..Len(fns)] ==
        IF x = 0 THEN <<>>
        ELSE IF \E y \in 1..Len(keep) : keep[y] = fns[x].name
               THEN Append(F[x - 1], fns[x].name)
               ELSE F[x - 1]
  IN  F[Len(fns)]

\* The names the keep loop visits, in the order it visits them.
KeepOrder(keep, fns) == keep

RECURSIVE KeptText(_, _, _)
KeptText(ls, names, fns) ==
  IF names = <<>> THEN <<>>
  ELSE (IF DictHas(fns, Head(names))
          THEN JoinLines(ls, DictGet(fns, Head(names)).start,
                         DictGet(fns, Head(names)).end) \o <<NL>>
          ELSE <<>>)
         \o KeptText(ls, Tail(names), fns)

(***************************************************************************)
(* State machine                                                           *)
(***************************************************************************)
EmptyGroups == [k \in KeySet |-> <<>>]

\* The output files found when the script starts.
InitialFile(p) ==
  IF p \in {PartPath("match"), PartPath("expr")} THEN Stale ELSE NoFile

InitWith(srcs, cfgs) ==
  /\ \E src \in srcs, cfg \in cfgs :
       /\ fs = [p \in Paths |->
                  IF p = InputPath THEN File(src) ELSE InitialFile(p)]
       /\ FUNCTION_MAP = cfg.table
       /\ keep_functions = cfg.keep
  /\ lines = <<>>
  /\ functions = <<>>
  /\ file_functions = EmptyGroups
  /\ pc = "load"
  /\ key_idx = 1
  /\ run = 1
  /\ first_run_fs = [p \in Paths |-> NoFile]

InitFrom(srcs) == InitWith(srcs, Configs)

Init == InitFrom(Sources)

\* Start with the shipped table and allow-list.
InitShipped == InitWith(ShippedSources, {ShippedConfig})

\* Start on a file whose last line may lack its newline.
InitRaw == InitFrom(RawSources)

Load ==
  /\ pc = "load"
  /\ lines' = ReadLines(fs[InputPath].data)
  /\ pc' = "scan"
  /\ UNCHANGED <<fs, FUNCTION_MAP, keep_functions, functions, file_functions,
                 key_idx, run, first_run_fs>>

Scan ==
  /\ pc = "scan"
  /\ functions' = find_functions(lines, FUNCTION_MAP)
  /\ pc' = "group"
  /\ UNCHANGED <<fs, FUNCTION_MAP, keep_functions, lines, file_functions,
                 key_idx, run, first_run_fs>>

Aggregate ==
  /\ pc = "group"
  /\ file_functions' = [k \in KeySet |-> SortByStart(Grouped(functions, k))]
  /\ key_idx' = 1
  /\ pc' = "emit"
  /\ UNCHANGED <<fs, FUNCTION_MAP, keep_functions, lines, functions, run,
                 first_run_fs>>

EmitPartition ==
  /\ pc = "emit"
  /\ LET k == FileKeys[key_idx]
         funcs == file_functions[k]
     IN  fs' = IF SkipPartition(funcs)
                 THEN fs
                 ELSE [fs EXCEPT ![PartPath(k)] =
                         File(OpenTruncate(@) \o PartitionText(lines, k, funcs))]
  /\ IF key_idx < Len(FileKeys)
       THEN key_idx' = key_idx + 1 /\ pc' = "emit"
       ELSE key_idx' = key_idx /\ pc' = "reduce"
  /\ UNCHANGED <<FUNCTION_MAP, keep_functions, lines, functions,
                 file_functions, run, first_run_fs>>

WritePreamble ==
  /\ pc = "reduce"
  /\ fs' = [fs EXCEPT ![ReducedPath] =
              File(OpenTruncate(@) \o JoinLines(lines, 0, PreambleEnd(lines, 0)))]
  /\ pc' = "keep"
  /\ UNCHANGED <<FUNCTION_MAP, keep_functions, lines, functions,
                 file_functions, key_idx, run, first_run_fs>>

WriteKeep ==
  /\ pc = "keep"
  /\ fs' = [fs EXCEPT ![ReducedPath] =
              File(@.data
                     \o KeptText(lines, KeepOrder(keep_functions, functions),
                                 functions)
                     \o NamespaceClose)]
  /\ pc' = "done"
  /\ UNCHANGED <<FUNCTION_MAP, keep_functions, lines, functions,
                 file_functions, key_idx, run, first_run_fs>>

\* The script is started again on the files the first run left behind.
Rerun ==
  /\ pc = "done"
  /\ run = 1
  /\ first_run_fs' = fs
  /\ run' = 2
  /\ pc' = "load"
  /\ lines' = <<>>
  /\ functions' = <<>>
  /\ file_functions' = EmptyGroups
  /\ key_idx' = 1
  /\ UNCHANGED <<fs, FUNCTION_MAP, keep_functions>>

\* Opening or writing the output file at hand raises an error.  The file is
\* left as it was (open failed) or holds a part of what was to be written.
WriteFails ==
  /\ \/ /\ pc = "emit"
        /\ ~SkipPartition(file_functions[FileKeys[key_idx]])
        /\ \E part \in {fs[PartPath(FileKeys[key_idx])], File(<<>>),
                         File(Prologue(FileKeys[key_idx]))} :
             fs' = [fs EXCEPT ![PartPath(FileKeys[key_idx])] = part]
        /\ pc' = AfterError(IF key_idx < Len(FileKeys) THEN "emit" ELSE "reduce",
                            "abort_emit")
        /\ key_idx' = IF pc' = "emit" THEN key_idx + 1 ELSE key_idx
     \/ /\ pc = "reduce"
        /\ \E part \in {fs[ReducedPath], File(<<>>)} :
             fs' = [fs EXCEPT ![ReducedPath] = part]
        /\ pc' = AfterError("done", "abort_reduce")
        /\ key_idx' = key_idx
     \/ /\ pc = "keep"
        /\ fs' = fs
        /\ pc' = AfterError("done", "abort_reduce")
        /\ key_idx' = key_idx
  /\ UNCHANGED <<FUNCTION_MAP, keep_functions, lines, functions,
                 file_functions, run, first_run_fs>>

Next ==
  \/ Load
  \/ Scan
  \/ Aggregate
  \/ EmitPartition
  \/ WritePreamble
  \/ WriteKeep

Spec == Init /\ [][Next]_vars

NextTwice ==
  \/ Next
  \/ Rerun

SpecTwice == Init /\ [][NextTwice]_vars

NextFail ==
  \/ Next
  \/ WriteFails

SpecFail == Init /\ [][NextFail]_vars

SpecRaw == InitRaw /\ [][Next]_vars

SpecShipped == InitShipped /\ [][Next]_vars

(***************************************************************************)
(* Vocabulary of the properties                                            *)
(***************************************************************************)
LineIdx == 0..(Len(lines) - 1)

Scanned == pc \in {"group", "emit", "reduce", "keep", "done"}

Grouped_ == pc \in {"emit", "reduce", "keep", "done"}

\* text occurs in data as a contiguous run of tokens
Occurs(text, data) ==
  \E p \in 0..(Len(data) - Len(text)) : SubSeq(data, p + 1, p + Len(text)) = text

OccursAt(text, data, p) ==
  /\ p + Len(text) <= Len(data)
  /\ SubSeq(data, p + 1, p + Len(text)) = text

Least(S, default) == IF S = {} THEN default ELSE CHOOSE m \in S : \A n \in S : m <= n

\* line i is a header the pattern recognizes
RecognizedHeader(i) == HeaderMatch(lines[i + 1])

\* ... and its name is a key of the table
ClassifiedHeader(i) ==
  RecognizedHeader(i) /\ HeaderName(lines[i + 1]) \in DOMAIN FUNCTION_MAP

\* Brace depth at the end of line k, counted from line i itself.
DepthAfter(i, k) ==
  LET D[x \in (i - 1)..k] ==
        IF x = i - 1 THEN 0
        ELSE D[x - 1] + Count(lines[x + 1], "{") - Count(lines[x + 1], "}")
  IN  D[k]

SeenOpen(i, k) == \E x \in i..k : Count(lines[x + 1], "{") > 0

\* The lines at whose end the definition starting at i is closed.
ClosingLines(i) ==
  {k \in i..(Len(lines) - 1) : SeenOpen(i, k) /\ DepthAfter(i, k) = 0}

BodyCloses(i) == ClosingLines(i) # {}

\* End (exclusive) of the whole definition starting at line i: just after the
\* line with the matching closing brace, or the end of the file.
DefinitionEnd(i) == Least({k + 1 : k \in ClosingLines(i)}, Len(lines))

DefinitionText(i) == JoinLines(lines, i, DefinitionEnd(i))

\* Line i lies inside the definition opened by an earlier header.
Enclosed(i) == \E j \in 0..(i - 1) : RecognizedHeader(j) /\ i < DefinitionEnd(j)

\* A function-definition occurrence: a recognized header, not inside an
\* earlier definition, whose body is closed by a matching brace before any
\* other line that looks like a header.
Definition(i) ==
  /\ RecognizedHeader(i)
  /\ BodyCloses(i)
  /\ ~Enclosed(i)
  /\ \A x \in (i + 1)..(DefinitionEnd(i) - 1) : ~PrefixMatch(lines[x + 1])

\* ... of a function whose name is a key of the table
ClassifiedDefinition(i) == Definition(i) /\ ClassifiedHeader(i)

Emitted(k) == file_functions[k] # <<>>

InPartitionFile(k, text) == Emitted(k) /\ Occurs(text, fs[PartPath(k)].data)

KeepSet == {keep_functions[x] : x \in 1..Len(keep_functions)}

FunctionSet == {functions[x] : x \in 1..Len(functions)}

GroupSet(k) == {file_functions[k][x] : x \in 1..Len(file_functions[k])}

(***************************************************************************)
(* C1                                                                      *)
(***************************************************************************)
\* C1: after a complete run, the whole definition (header through matching
\* closing brace) of every recognized function whose name is in the table
\* occurs in the partition file of its category and in no other.
C1_ExactlyOnePartition ==
  pc = "done" =>
    \A i \in LineIdx :
      ClassifiedDefinition(i) =>
        \A k \in KeySet :
          InPartitionFile(k, DefinitionText(i))
            <=> (k = FUNCTION_MAP[HeaderName(lines[i + 1])])

(***************************************************************************)
(* C2                                                                      *)
(***************************************************************************)
\* C2: after aggregation no record is in two category lists and the extents
\* of records in different category lists share no source line.
C2_PartitionsDisjoint ==
  Grouped_ =>
    \A k1 \in KeySet, k2 \in KeySet :
      k1 # k2 =>
        \A r1 \in GroupSet(k1), r2 \in GroupSet(k2) :
          /\ r1 # r2
          /\ r1.end <= r2.start \/ r2.end <= r1.start

\* Two categories have members and an extent of one holds the header of a
\* function classified into the other.
C2_Witness ==
  /\ pc = "emit"
  /\ \E k1 \in KeySet, k2 \in KeySet :
       /\ k1 # k2
       /\ Emitted(k2)
       /\ \E r \in GroupSet(k1) :
            \E i \in (r.start + 1)..(r.end - 1) :
              ClassifiedHeader(i) /\ FUNCTION_MAP[HeaderName(lines[i + 1])] = k2

(***************************************************************************)
(* C3                                                                      *)
(***************************************************************************)
\* The extents of category k taken in ascending start line.
RECURSIVE AscendingText(_, _)
AscendingText(k, i) ==
  IF i >= Len(lines) THEN <<>>
  ELSE (IF \E r \in FunctionSet : r.target = k /\ r.start = i
          THEN LET r == CHOOSE r \in FunctionSet : r.target = k /\ r.start = i
               IN  JoinLines(lines, r.start, r.end) \o <<NL>>
          ELSE <<>>)
         \o AscendingText(k, i + 1)

\* C3: every emitted partition file holds its category's extents in
\* ascending startLine order, i.e. in original source order.
C3_SourceOrder ==
  pc = "done" =>
    \A k \in KeySet :
      Emitted(k) =>
        fs[PartPath(k)].data = Prologue(k) \o AscendingText(k, 0) \o NamespaceClose

\* The scan result lists two records of one category out of source order.
C3_Witness ==
  /\ pc = "done"
  /\ \E x \in 1..Len(functions), y \in 1..Len(functions) :
       /\ x < y
       /\ functions[x].target = functions[y].target
       /\ functions[x].start > functions[y].start

(***************************************************************************)
(* C4                                                                      *)
(***************************************************************************)
\* First line the scanner recognizes: pattern plus table membership.
FirstScannerHeader == Least({i \in LineIdx : ClassifiedHeader(i)}, Len(lines))

\* First line that starts with a return type and " CodeGenerator::".
FirstPrefixLine == Least({i \in LineIdx : PrefixMatch(lines[i + 1])}, Len(lines))

\* C4 as stated: the preamble is the lines before the first header the
\* scanner recognizes.
C4_PreambleToScannerHeader ==
  pc = "keep" => fs[ReducedPath].data = JoinLines(lines, 0, FirstScannerHeader)

\* C4 amended: the preamble is the lines before the first line that starts
\* with a return type and " CodeGenerator::", whatever follows and whether or
\* not a name on it is in the table.
C4_PreambleToPrefixLine ==
  pc = "keep" => fs[ReducedPath].data = JoinLines(lines, 0, FirstPrefixLine)

\* A non-empty preamble stops before the scanner's first header.
C4_Witness ==
  /\ pc = "keep"
  /\ 0 < FirstPrefixLine
  /\ FirstPrefixLine < FirstScannerHeader
  /\ FirstScannerHeader < Len(lines)

(***************************************************************************)
(* C5                                                                      *)
(***************************************************************************)
RecordText(name) ==
  JoinLines(lines, DictGet(functions, name).start, DictGet(functions, name).end)

\* C5: in the reduced file, after the preamble, the text of an allow-list
\* name comes before the text of every later allow-list name.
C5_AllowListOrder ==
  pc = "done" =>
    \A x \in 1..Len(keep_functions), y \in 1..Len(keep_functions) :
      (/\ x < y
       /\ DictHas(functions, keep_functions[x])
       /\ DictHas(functions, keep_functions[y])) =>
        LET data == fs[ReducedPath].data
            ta == RecordText(keep_functions[x])
            tb == RecordText(keep_functions[y])
            pre == Len(JoinLines(lines, 0, FirstPrefixLine))
        IN  \E pa \in pre..Len(data), pb \in pre..Len(data) :
              /\ OccursAt(ta, data, pa)
              /\ OccursAt(tb, data, pb)
              /\ pa + Len(ta) <= pb

\* The later allow-list name is defined earlier in the source.
C5_Witness ==
  /\ pc = "done"
  /\ \E x \in 1..Len(keep_functions), y \in 1..Len(keep_functions) :
       /\ x < y
       /\ DictHas(functions, keep_functions[x])
       /\ DictHas(functions, keep_functions[y])
       /\ DictGet(functions, keep_functions[y]).start
            < DictGet(functions, keep_functions[x]).start

(***************************************************************************)
(* C6                                                                      *)
(***************************************************************************)
Braceless(i) == Count(lines[i + 1], "{") = 0 /\ Count(lines[i + 1], "}") = 0

\* A classified definition, the only one of its name, whose header line has
\* no brace and is followed by at least one more brace-free signature line
\* before the line with the first '{'.
MultiLineSignature(i) ==
  /\ ClassifiedDefinition(i)
  /\ \A j \in LineIdx \ {i} :
       RecognizedHeader(j) => HeaderName(lines[j + 1]) # HeaderName(lines[i + 1])
  /\ \E b \in (i + 2)..(Len(lines) - 1) :
       /\ Count(lines[b + 1], "{") > 0
       /\ \A x \in i..(b - 1) : Braceless(x)

\* C6: a classified function with a multi-line signature yields exactly one
\* record, from its header line to just after the line closing its body, and
\* no record starts inside it.
C6_SingleExtent ==
  Scanned =>
    \A i \in LineIdx :
      MultiLineSignature(i) =>
        /\ Cardinality({r \in FunctionSet : r.start = i}) = 1
        /\ \A r \in FunctionSet : r.start = i => r.end = DefinitionEnd(i)
        /\ \A r \in FunctionSet : ~(i < r.start /\ r.start < DefinitionEnd(i))

(***************************************************************************)
(* C7                                                                      *)
(***************************************************************************)
\* C7: a second run on the same input and configuration leaves every file
\* as the first run left it, and a run never changes the file it has read.
C7_Idempotent ==
  /\ (pc = "done" /\ run = 2) => fs = first_run_fs
  /\ pc # "load" => lines = ReadLines(fs[InputPath].data)

\* The second run has finished after writing a partition over a file that
\* existed before the first run, and the reduced file kept a function.
C7_Witness ==
  /\ pc = "done"
  /\ run = 2
  /\ Emitted("match")
  /\ Emitted("type")
  /\ \E n \in KeepSet : DictHas(functions, n)

(***************************************************************************)
(* C8                                                                      *)
(***************************************************************************)
LineF == Append(OneLine("f")[1], NL)

LineG == Append(OneLine("g")[1], NL)

\* A preamble, then f and g each complete on one line; f -> match,
\* g -> type; allow-list [g].
C8_Input ==
  /\ DOMAIN FUNCTION_MAP = {"f", "g"}
  /\ FUNCTION_MAP["f"] = "match"
  /\ FUNCTION_MAP["g"] = "type"
  /\ keep_functions = <<"g">>
  /\ Len(lines) >= 2
  /\ lines[Len(lines) - 1] = LineF
  /\ lines[Len(lines)] = LineG
  /\ \A x \in 1..(Len(lines) - 2) : ~PrefixMatch(lines[x])

\* C8: on that input the match file holds f's line and not g's, the type
\* file holds g's line and not f's, and the reduced file is the preamble
\* followed by g's line, without f's.
C8_EndToEnd ==
  (pc = "done" /\ C8_Input) =>
    /\ InPartitionFile("match", LineF)
    /\ ~InPartitionFile("match", LineG)
    /\ InPartitionFile("type", LineG)
    /\ ~InPartitionFile("type", LineF)
    /\ OccursAt(JoinLines(lines, 0, Len(lines) - 2) \o LineG,
                fs[ReducedPath].data, 0)
    /\ ~Occurs(LineF, fs[ReducedPath].data)

(***************************************************************************)
(* C9                                                                      *)
(***************************************************************************)
\* C9: a recognized function on the allow-list and absent from the table has
\* its definition written to the reduced file.
C9_AllowListFullScan ==
  pc = "done" =>
    \A i \in LineIdx :
      (/\ Definition(i)
       /\ HeaderName(lines[i + 1]) \in KeepSet
       /\ HeaderName(lines[i + 1]) \notin DOMAIN FUNCTION_MAP) =>
        Occurs(DefinitionText(i), fs[ReducedPath].data)

(***************************************************************************)
(* C10                                                                     *)
(***************************************************************************)
\* Source line l is inside an extent written to a partition file.
InPartitionExtent(l) ==
  \E k \in KeySet : \E r \in GroupSet(k) : r.start <= l /\ l < r.end

\* Source line l is inside an extent written after the preamble.
InKeptExtent(l) ==
  \E r \in FunctionSet : r.name \in KeepSet /\ r.start <= l /\ l < r.end

\* C10: no line of a recognized definition whose name is neither in the
\* table nor on the allow-list is written to a partition file or after the
\* preamble of the reduced file.
C10_UnclassifiedDropped ==
  pc = "done" =>
    \A i \in LineIdx :
      (/\ Definition(i)
       /\ HeaderName(lines[i + 1]) \notin DOMAIN FUNCTION_MAP
       /\ HeaderName(lines[i + 1]) \notin KeepSet) =>
        /\ \A l \in i..(DefinitionEnd(i) - 1) :
             ~InPartitionExtent(l) /\ ~InKeptExtent(l)
        /\ \A k \in KeySet : ~InPartitionFile(k, lines[i + 1])

(***************************************************************************)
(* C11                                                                     *)
(***************************************************************************)
\* No header line of the source carries a brace.
BracelessHeaders ==
  \A j \in LineIdx : RecognizedHeader(j) => Braceless(j)

\* Another definition of the same name exists.
Redefined(i) ==
  \E j \in LineIdx \ {i} :
    Definition(j) /\ HeaderName(lines[j + 1]) = HeaderName(lines[i + 1])

\* C11: when a classified name is defined more than once, every occurrence
\* has its own record, from its header to the end of its definition, in the
\* list written to that name's partition file.
C11_EveryOccurrenceRecorded ==
  (pc = "done" /\ BracelessHeaders) =>
    \A i \in LineIdx :
      (ClassifiedDefinition(i) /\ Redefined(i)) =>
        \E r \in GroupSet(FUNCTION_MAP[HeaderName(lines[i + 1])]) :
          r.start = i /\ r.end = DefinitionEnd(i)

(***************************************************************************)
(* C12                                                                     *)
(***************************************************************************)
\* C12: after a complete run a category's file has been written if and only
\* if a record was assigned to the category; the file of a category without
\* members is as it was before the run.
C12_FileIffMembers ==
  pc = "done" =>
    \A k \in KeySet :
      IF \E r \in FunctionSet : r.target = k
        THEN /\ fs[PartPath(k)].exists
             /\ OccursAt(Prologue(k), fs[PartPath(k)].data, 0)
        ELSE fs[PartPath(k)] = InitialFile(PartPath(k))

\* A category without members whose file existed before the run, next to a
\* category with members.
C12_Witness ==
  /\ pc = "done"
  /\ ~\E r \in FunctionSet : r.target = "match"
  /\ \E r \in FunctionSet : r.target = "type"
  /\ fs[PartPath("match")] = Stale

(***************************************************************************)
(* C13                                                                     *)
(***************************************************************************)
\* The file of the x-th key is as a completed emission step leaves it.
Completed(x) ==
  LET k == FileKeys[x]
  IN  IF file_functions[k] = <<>>
        THEN fs[PartPath(k)] = InitialFile(PartPath(k))
        ELSE fs[PartPath(k)] = File(PartitionText(lines, k, file_functions[k]))

Untouched(p) == fs[p] = InitialFile(p)

\* C13: files are written one after another, partition files first; when a
\* write fails the run stops there, the files completed before keep their
\* new content and no later file is written.
C13_AbortKeepsEarlierFiles ==
  /\ pc \in {"emit", "abort_emit"} =>
       /\ \A x \in 1..(key_idx - 1) : Completed(x)
       /\ \A x \in (key_idx + 1)..Len(FileKeys) : Untouched(PartPath(FileKeys[x]))
       /\ pc = "emit" => Untouched(PartPath(FileKeys[key_idx]))
       /\ Untouched(ReducedPath)
  /\ pc \in {"reduce", "keep", "done", "abort_reduce"} =>
       \A x \in 1..Len(FileKeys) : Completed(x)
  /\ pc \in {"load", "scan", "group"} => \A p \in Paths \ {InputPath} : Untouched(p)

\* The write of the second partition file failed after the first was written.
C13_Witness ==
  /\ pc = "abort_emit"
  /\ key_idx = 2
  /\ file_functions["match"] # <<>>
  /\ fs[PartPath("match")] # Stale

(***************************************************************************)
(* C14                                                                     *)
(***************************************************************************)
\* The lines after header line i at whose end the braces counted from line
\* i + 1 balance after a '{' was seen there.
BalanceLines(i) ==
  {k \in (i + 1)..(Len(lines) - 1) : SeenOpen(i + 1, k) /\ DepthAfter(i + 1, k) = 0}

\* C14: a record whose scan reached the end of input without the count
\* returning to zero ends at len(lines), and the run completes with the
\* lines up to the end of the file written to the record's partition file.
C14_TruncatedToEnd ==
  /\ Scanned =>
       \A r \in FunctionSet : BalanceLines(r.start) = {} => r.end = Len(lines)
  /\ pc = "done" =>
       \A r \in FunctionSet :
         BalanceLines(r.start) = {} =>
           InPartitionFile(r.target, JoinLines(lines, r.start, Len(lines)))

\* The run completed with a record of a function whose body is never closed
\* and that has lines after its header.
C14_Witness ==
  /\ pc = "done"
  /\ \E r \in FunctionSet :
       /\ BalanceLines(r.start) = {}
       /\ ~BodyCloses(r.start)
       /\ r.start + 1 < Len(lines)

(***************************************************************************)
(* C15                                                                     *)
(***************************************************************************)
\* C15: the record of a classified definition ends just after the first line,
\* counted from the header line itself, at whose end the brace depth is zero
\* after having been non-zero.
C15_EndAtDepthZero ==
  Scanned =>
    \A r \in FunctionSet :
      ClassifiedDefinition(r.start) => r.end = DefinitionEnd(r.start)

(***************************************************************************)
(* C16                                                                     *)
(***************************************************************************)
\* Lines after header line i that hold a '{'.
OpenLines(i) == {k \in (i + 1)..(Len(lines) - 1) : Count(lines[k + 1], "{") > 0}

\* The end of the extent when nothing is counted before the first '{'.
EndCountingFromFirstOpen(i) ==
  IF OpenLines(i) = {} THEN Len(lines)
  ELSE LET b == Least(OpenLines(i), 0)
       IN  Least({k + 1 : k \in {x \in b..(Len(lines) - 1) : DepthAfter(b, x) = 0}},
                 Len(lines))

\* C16: '}' on lines before the first '{' do not change the count: the
\* extent is the one computed as if they were absent.
C16_EarlyCloseIgnored ==
  Scanned =>
    \A r \in FunctionSet :
      Braceless(r.start) => r.end = EndCountingFromFirstOpen(r.start)

(***************************************************************************)
(* C17                                                                     *)
(***************************************************************************)
\* C17: every record has 0 <= startLine < endLine <= len(lines) and the
\* extents of two distinct records do not overlap.
C17_ExtentsWellFormed ==
  Scanned =>
    /\ \A r \in FunctionSet : 0 <= r.start /\ r.start < r.end /\ r.end <= Len(lines)
    /\ \A r1 \in FunctionSet, r2 \in FunctionSet :
         r1 # r2 => (r1.end <= r2.start \/ r2.end <= r1.start)

\* Two records, one of whose extents holds a classified header that the
\* scanner skipped.
C17_Witness ==
  /\ pc = "group"
  /\ Cardinality(FunctionSet) >= 2
  /\ \E r \in FunctionSet :
       \E i \in (r.start + 1)..(r.end - 1) : ClassifiedHeader(i)

(***************************************************************************)
(* C18                                                                     *)
(***************************************************************************)
\* C18: the scan result, in its own order, has non-decreasing startLine.
C18_ScanOrder ==
  Scanned =>
    \A x \in 1..Len(functions), y \in 1..Len(functions) :
      x < y => functions[x].start <= functions[y].start

(***************************************************************************)
(* C19                                                                     *)
(***************************************************************************)
\* A source line as a complete line of an output file.
Terminated(line) ==
  IF line # <<>> /\ line[Len(line)] = NL THEN line ELSE Append(line, NL)

BlankLine == <<NL>>

\* For each record in order: its source lines, then one blank line.
RECURSIVE RecordLines(_)
RecordLines(funcs) ==
  IF funcs = <<>> THEN <<>>
  ELSE [x \in 1..(Head(funcs).end - Head(funcs).start) |->
          Terminated(lines[Head(funcs).start + x])]
         \o <<BlankLine>>
         \o RecordLines(Tail(funcs))

\* C19: read line by line, an emitted partition file is the wrapper's opening
\* lines, then for each record in aggregator order its source lines followed
\* by one blank line, then the namespace close marker.
C19_PartitionLayout ==
  pc = "done" =>
    \A k \in KeySet :
      Emitted(k) =>
        ReadLines(fs[PartPath(k)].data)
          = ReadLines(Prologue(k)) \o RecordLines(file_functions[k])
              \o <<NamespaceClose>>

Shipped ==
  /\ FUNCTION_MAP = ShippedFunctionMap
  /\ keep_functions = ShippedKeep

\* No header line of a function the pattern recognizes is in the reduced
\* file, hence no function's text.
NoFunctionText ==
  \A i \in LineIdx :
    RecognizedHeader(i) => ~Occurs(lines[i + 1], fs[ReducedPath].data)

====
